---------------------------- MODULE Spec2Model ----------------------------
(***************************************************************************)
(* Flache & Macy caveman model of polarization (src/macy/macy.py).         *)
(*                                                                         *)
(* A Network wraps a graph whose nodes are Agents, keeps the list of       *)
(* non-neighbor pairs, adds random connections and runs asynchronous       *)
(* opinion-update sweeps.  polarization() measures the variance of the     *)
(* pairwise opinion distances.                                             *)
(*                                                                         *)
(* Opinions are real numbers.  They are modelled exactly, as rationals     *)
(* <<num, den>> in lowest terms with den > 0; floating-point rounding is   *)
(* not modelled.  Agents are the integers 1..n in the order nodes()        *)
(* lists them.                                                             *)
(***************************************************************************)
EXTENDS Integers, Sequences, FiniteSets, TLC

\* ---------------------------------------------------------------- bounds
\* Largest number of agents of an initial graph.
MaxAgents == 3
\* Largest opinion dimensionality K.
MaxK == 2
\* An update or a metric is followed only while every opinion it reads has
\* a denominator of at most MaxDen (the arithmetic of the model is exact
\* and TLC's integers are 32 bits wide).
MaxDen == 64
\* The values of a random opinion component are the multiples of
\* 1 / UniformGrid in [-1, 1).
UniformGrid == 4

\* ------------------------------------------------------ exact arithmetic
Abs(x) == IF x < 0 THEN -x ELSE x

RECURSIVE GCD(_, _)
GCD(a, b) == IF b = 0 THEN a ELSE GCD(b, a % b)

\* The rational n/d (d # 0) in lowest terms with a positive denominator.
Rat(n, d) ==
    LET g == GCD(Abs(n), Abs(d))
        s == IF d < 0 THEN -1 ELSE 1
    IN  << s * (n \div g), s * (d \div g) >>

RInt(i) == << i, 1 >>

RAdd(a, b) ==
    LET g == GCD(a[2], b[2])
    IN  Rat(a[1] * (b[2] \div g) + b[1] * (a[2] \div g), (a[2] \div g) * b[2])

RNeg(a) == << -a[1], a[2] >>

RSub(a, b) == RAdd(a, RNeg(b))

RMul(a, b) ==
    LET g1 == GCD(Abs(a[1]), b[2])
        g2 == GCD(Abs(b[1]), a[2])
    IN  Rat((a[1] \div g1) * (b[1] \div g2), (a[2] \div g2) * (b[2] \div g1))

RAbs(a) == << Abs(a[1]), a[2] >>

\* a < b and a <= b on rationals.
RLess(a, b) == a[1] * b[2] < b[1] * a[2]

RLeq(a, b) == a[1] * b[2] <= b[1] * a[2]

\* Sum of a sequence of rationals, left to right.
RECURSIVE RSum(_)
RSum(s) == IF s = << >> THEN RInt(0)
           ELSE RAdd(RSum(SubSeq(s, 1, Len(s) - 1)), s[Len(s)])

\* Componentwise operations on opinion vectors (numpy arrays).
VSub(u, v) == [i \in 1..Len(u) |-> RSub(u[i], v[i])]

VAdd(u, v) == [i \in 1..Len(u) |-> RAdd(u[i], v[i])]

VScale(c, v) == [i \in 1..Len(v) |-> RMul(c, v[i])]

VAbs(v) == [i \in 1..Len(v) |-> RAbs(v[i])]


\* ---------------------------------------------------- results of a call
\* A call either returns a value or raises an exception.
Return(v) == [exc |-> "none", val |-> v]

Raise(e) == [exc |-> e, val |-> << >>]

\* numpy's nan, the value of 0.0 / 0.
NaN == << 0, 0 >>

IsNaN(a) == a[2] = 0

\* numpy float64 division by a Python int: x / 0 is nan (a warning, not an
\* exception) when x is 0.0.
NpDiv(a, k) == IF k = 0 THEN NaN ELSE RMul(a, Rat(1, k))

\* Python division behaving as numpy's: nan instead of an exception.
PyDiv_as_numpy(a, k) == Return(NpDiv(a, k))

\* Python float / int division: raises ZeroDivisionError on a zero divisor.
PyDiv(a, k) == IF k = 0 THEN Raise("ZeroDivisionError")
               ELSE Return(RMul(a, Rat(1, k)))

\* --------------------------------------------------------- update rule
\* The weight without its nonnegative variant: the normalisation is never
\* doubled.
weight_signed_only(o1, o2, nonnegative) ==
    IF Len(o1) # Len(o2) THEN Raise("RuntimeError")
    ELSE LET K == Len(o1)
             diff == VAbs(VSub(o2, o1))
             numerator == RSum(diff)
         IN  Return(RSub(RInt(1), RMul(numerator, Rat(1, K))))

\* weight(a1, a2, nonnegative) on the two agents' opinion vectors.
weight(o1, o2, nonnegative) ==
    IF Len(o1) # Len(o2) THEN Raise("RuntimeError")
    ELSE LET K == Len(o1)
             diff == VAbs(VSub(o2, o1))
             numerator == RSum(diff)
             nonneg_fac == IF nonnegative THEN 2 ELSE 1
         IN  Return(RSub(RInt(1), RMul(numerator, Rat(1, nonneg_fac * K))))

\* The sequence of the elements of a set of integers, in increasing order.
RECURSIVE SortedSeq(_)
SortedSeq(S) ==
    IF S = {} THEN << >>
    ELSE LET m == CHOOSE x \in S : \A y \in S : x <= y
         IN  << m >> \o SortedSeq(S \ {m})

\* Sum of a sequence of vectors of length K, starting from the vector 0.
RECURSIVE VSum(_, _)
VSum(s, K) == IF s = << >> THEN [i \in 1..K |-> RInt(0)]
              ELSE VAdd(VSum(SubSeq(s, 1, Len(s) - 1), K), s[Len(s)])

\* raw_opinion_update_vec returning the zero vector for an agent
\* without neighbors instead of dividing by zero.
raw_opinion_update_vec_zero(ops, agent, nbrs) ==
    LET K == Len(ops[agent])
        factor == Rat(1, 2 * (IF Len(nbrs) = 0 THEN 1 ELSE Len(nbrs)))
        terms == [k \in 1..Len(nbrs) |->
                    VScale(weight(ops[agent], ops[nbrs[k]], FALSE).val,
                           VSub(ops[nbrs[k]], ops[agent]))]
    IN  Return(VScale(factor, VSum(terms, K)))

\* raw_opinion_update_vec(agent, neighbors): ops maps every agent to its
\* opinion vector, neighbors is the sequence of the agent's neighbors.
raw_opinion_update_vec(ops, agent, neighbors) ==
    IF Len(neighbors) = 0 THEN Raise("ZeroDivisionError")
    ELSE LET factor == Rat(1, 2 * Len(neighbors))
             w(nb) == weight(ops[agent], ops[nb], FALSE)
             terms == [k \in 1..Len(neighbors) |->
                         VScale(w(neighbors[k]).val,
                                VSub(ops[neighbors[k]], ops[agent]))]
         IN  IF \E k \in 1..Len(neighbors) : w(neighbors[k]).exc # "none"
             THEN Raise("RuntimeError")
             ELSE Return(VScale(factor, VSum(terms, Len(ops[agent]))))

\* opinion_update_vec without the sign-dependent shrink: the symmetric
\* variant, opinion + raw update.
opinion_update_vec_no_shrink(ops, agent, nbrs) ==
    LET r == raw_opinion_update_vec(ops, agent, nbrs)
    IN  IF r.exc # "none" THEN r
        ELSE Return(VAdd(ops[agent], r.val))

\* opinion_update_vec(agent, neighbors): the sign-dependent shrink.
opinion_update_vec(ops, agent, neighbors) ==
    LET r == raw_opinion_update_vec(ops, agent, neighbors)
        raw_update_vec == r.val
        o == ops[agent]
    IN  IF r.exc # "none" THEN r
        ELSE Return([i \in 1..Len(o) |->
                 IF RLess(RInt(0), o[i])
                 THEN RAdd(o[i], RMul(raw_update_vec[i], RSub(RInt(1), o[i])))
                 ELSE RAdd(o[i], RMul(raw_update_vec[i], RAdd(RInt(1), o[i])))])

\* -------------------------------------------------- polarization metric
\* distance(agent_1, agent_2) on the two agents' opinion vectors.
distance(o1, o2) ==
    LET n_ops == Len(o1)
    IN  RMul(Rat(1, n_ops), RSum(VAbs(VSub(o1, o2))))

\* Float arithmetic where an operand may be nan.
NSub(x, y) == IF IsNaN(x) \/ IsNaN(y) THEN NaN ELSE RSub(x, y)

NSq(x) == IF IsNaN(x) THEN NaN ELSE RMul(x, x)

NAdd(x, y) == IF IsNaN(x) \/ IsNaN(y) THEN NaN ELSE RAdd(x, y)

NMul(x, y) == IF IsNaN(x) \/ IsNaN(y) THEN NaN ELSE RMul(x, y)

\* Sum of all the entries of an L x L matrix (np.sum), row by row.
RECURSIVE MSumTo(_, _, _)
MSumTo(M, L, k) ==
    IF k = 0 THEN RInt(0)
    ELSE NAdd(MSumTo(M, L, k - 1), M[((k - 1) \div L) + 1][((k - 1) % L) + 1])

MSum(M, L) == MSumTo(M, L, L * L)

\* polarization without the loop that zeroes the diagonal of d_sub_mean.
polarization_keeping_diagonal(ops) ==
    LET L == Len(ops)
        distances == [i \in 1..L |-> [j \in 1..L |-> distance(ops[i], ops[j])]]
        d_expected == NpDiv(MSum(distances, L), L * (L - 1))
        d_sub_mean == [i \in 1..L |-> [j \in 1..L |->
                          NSub(distances[i][j], d_expected)]]
        d_sub_mean_sq == MSum([i \in 1..L |-> [j \in 1..L |->
                                  NSq(d_sub_mean[i][j])]], L)
        scale == PyDiv(RInt(1), L * (L - 1))
    IN  IF scale.exc # "none" THEN scale
        ELSE Return(NMul(scale.val, d_sub_mean_sq))

\* polarization(network): ops is the sequence of the opinion vectors of
\* network.nodes().
polarization(ops) ==
    LET L == Len(ops)
        distances == [i \in 1..L |-> [j \in 1..L |-> distance(ops[i], ops[j])]]
        d_expected == NpDiv(MSum(distances, L), L * (L - 1))
        d_sub_mean == [i \in 1..L |-> [j \in 1..L |->
                          IF i = j THEN RInt(0)
                          ELSE NSub(distances[i][j], d_expected)]]
        d_sub_mean_sq == MSum([i \in 1..L |-> [j \in 1..L |->
                                  NSq(d_sub_mean[i][j])]], L)
        scale == PyDiv(RInt(1), L * (L - 1))
    IN  IF scale.exc # "none" THEN scale
        ELSE Return(NMul(scale.val, d_sub_mean_sq))


\* ------------------------------------------------------------- the state
VARIABLES
    nodes,          \* graph.nodes(): the list of the agents
    adj,            \* graph adjacency: agent -> set of its neighbors
    non_neighbors,  \* Network.non_neighbors: list of pairs << a, b >>
    opinions,       \* Agent.opinions of every agent
    pc,             \* "idle", or "iterate" inside the loop of iterate()
    order,          \* iterate(): the shuffled list of nodes
    idx,            \* iterate(): position of the next agent in order
    last,           \* the last call: [op, exc], exc = "none" if it returned
    result,         \* value returned by the last polarization() call
    sweep0,         \* history: the opinions when the current sweep began
    nupd,           \* history: updates of every agent in the current sweep
    pool0,          \* history: the pool when add_random_connections began
    tried,          \* history: the pairs that call gave a trial, in order
    allowance       \* history: size of the pool after construction minus
                    \* the successful add_random_connection calls so far

vars == << nodes, adj, non_neighbors, opinions, pc, order, idx, last, result,
           sweep0, nupd, pool0, tried, allowance >>

\* ------------------------------------------------------ graph operations
\* graph.edges(): every edge once, as a tuple, first endpoint first in
\* nodes().
edges(g) == { e \in (DOMAIN g) \X (DOMAIN g) : e[1] < e[2] /\ e[2] \in g[e[1]] }

\* add_edge that replaces the neighbors of u by v alone.
add_edge_replacing(g, u, v) ==
    [a \in DOMAIN g |-> IF a = u THEN {v}
                        ELSE IF a = v THEN g[a] \cup {u} ELSE g[a]]

\* graph.add_edge(u, v).
add_edge(g, u, v) ==
    [a \in DOMAIN g |-> IF a = u THEN g[a] \cup {v}
                        ELSE IF a = v THEN g[a] \cup {u} ELSE g[a]]

\* graph.neighbors(agent), as a list.
neighbors(g, agent) == SortedSeq(g[agent])

\* list.pop() in place of list.remove(x): drops the last element.
remove_last(list, x) == SubSeq(list, 1, Len(list) - 1)

\* list.remove(x): drops the first occurrence of x.
RECURSIVE remove(_, _)
remove(list, x) ==
    IF list = << >> THEN << >>
    ELSE IF Head(list) = x THEN Tail(list)
    ELSE << Head(list) >> \o remove(Tail(list), x)

\* The elements of a list.
Range(list) == { list[k] : k \in 1..Len(list) }

\* nx.caveman_graph(n_caves, n_agents) relabelled by caves(): n_caves
\* cliques of n_agents agents each.
caves(n_caves, n_agents) ==
    [a \in 1..(n_caves * n_agents) |->
        { b \in 1..(n_caves * n_agents) :
            b # a /\ (b - 1) \div n_agents = (a - 1) \div n_agents }]

\* range(a, b) of Python, as a list.
range(a, b) == [k \in 1..(IF b > a THEN b - a ELSE 0) |-> a + k - 1]

\* possible_edges_of without the "if i != j" filter.
possible_edges_of_with_self_pairs(ns, i) ==
    LET js == range(i, Len(ns))
    IN  [k \in 1..Len(js) |-> << ns[i + 1], ns[js[k] + 1] >>]

\* Network.__init__: the pairs of possible_edges for one i, that is
\* (nodes[i], nodes[j]) for j in range(i, n_nodes) if i != j.
possible_edges_of(ns, i) ==
    LET js == SelectSeq(range(i, Len(ns)), LAMBDA j : i # j)
    IN  [k \in 1..Len(js) |-> << ns[i + 1], ns[js[k] + 1] >>]

\* Network.__init__: possible_edges, the pairs of the first n values of i
\* in range(n_nodes).
RECURSIVE possible_edges_to(_, _)
possible_edges_to(ns, n) ==
    IF n = 0 THEN << >>
    ELSE possible_edges_to(ns, n - 1) \o possible_edges_of(ns, n - 1)

possible_edges(ns) == possible_edges_to(ns, Len(ns))

\* Network.__init__: non_neighbors, the possible edges that are not edges
\* of the graph in either orientation.
init_non_neighbors(ns, g) ==
    LET current_edges == edges(g)
    IN  SelectSeq(possible_edges(ns),
                  LAMBDA el : << el[1], el[2] >> \notin current_edges /\
                              << el[2], el[1] >> \notin current_edges)

\* ------------------------------------------------------ initial states
\* The simple undirected graphs on the agents 1..n.
SimpleGraphs(n) ==
    { g \in [1..n -> SUBSET (1..n)] :
        \A a \in 1..n : a \notin g[a] /\ \A b \in g[a] : a \in g[b] }

\* Initial opinion vectors of the agents of a Network: Agent.__init__
\* draws two components from [-1, 1].
InitialOpinions ==
    { << Rat(1, 2), RInt(1) >>, << RInt(-1), Rat(-1, 2) >>,
      << RInt(1), RInt(0) >> }

NoCall == [op |-> "Network", exc |-> "none"]

\* The state after Network(initial_graph), for the graph g on the agents
\* 1..n whose opinion vectors are ops.
Constructed(n, g, ops) ==
    /\ nodes = [a \in 1..n |-> a]
    /\ adj = g
    /\ opinions = ops
    /\ non_neighbors = init_non_neighbors(nodes, adj)
    /\ pc = "idle"
    /\ order = << >>
    /\ idx = 0
    /\ last = NoCall
    /\ result = << >>
    /\ sweep0 = << >>
    /\ nupd = << >>
    /\ pool0 = << >>
    /\ tried = << >>
    /\ allowance = Len(non_neighbors)

\* Network(initial_graph) for a simple graph of at most MaxAgents agents.
Init ==
    \E n \in 0..MaxAgents :
        \E g \in SimpleGraphs(n), ops \in [1..n -> InitialOpinions] :
            Constructed(n, g, ops)

\* ------------------------------------------------------------ rewiring
\* Values of np.random.uniform(), drawn from [0, 1), and of conn_prob.
Uniforms == { Rat(0, 1), Rat(1, 2) }

ConnProbs == { Rat(0, 1), Rat(1, 2), Rat(1, 1) }

\* The sequences of n values np.random.uniform() can return in one call.
\* When conn_prob is above or below every value of Uniforms, all the
\* sequences give the same outcome and one of them stands for all.
Draws(conn_prob, n) ==
    IF \/ \A u \in Uniforms : RLess(u, conn_prob)
       \/ \A u \in Uniforms : ~RLess(u, conn_prob)
    THEN { [k \in 1..n |-> Rat(0, 1)] }
    ELSE [1..n -> Uniforms]

\* The loop of add_random_connections: "for pair in self.non_neighbors"
\* reads the element at position i of the list as it is at that moment
\* and stops when i is past its end.  st = [adj, non_neighbors, tried],
\* draws[k] is the k-th value of np.random.uniform().
RECURSIVE for_pair_in_non_neighbors(_, _, _, _)
for_pair_in_non_neighbors(st, i, conn_prob, draws) ==
    IF i > Len(st.non_neighbors) THEN st
    ELSE LET pair == st.non_neighbors[i]
             u == draws[Len(st.tried) + 1]
         IN  IF RLess(u, conn_prob)
             THEN for_pair_in_non_neighbors(
                      [adj |-> add_edge(st.adj, pair[1], pair[2]),
                       non_neighbors |-> remove(st.non_neighbors, pair),
                       tried |-> Append(st.tried, pair)],
                      i + 1, conn_prob, draws)
             ELSE for_pair_in_non_neighbors(
                      [st EXCEPT !.tried = Append(st.tried, pair)],
                      i + 1, conn_prob, draws)

\* Network.add_random_connections(conn_prob).
add_random_connections ==
    /\ pc = "idle"
    /\ \E conn_prob \in ConnProbs :
       \E draws \in Draws(conn_prob, Len(non_neighbors)) :
          LET st == for_pair_in_non_neighbors(
                        [adj |-> adj, non_neighbors |-> non_neighbors,
                         tried |-> << >>], 1, conn_prob, draws)
          IN  /\ adj' = st.adj
              /\ non_neighbors' = st.non_neighbors
              /\ tried' = st.tried
              /\ last' = [op |-> "add_random_connections", exc |-> "none",
                          conn_prob |-> conn_prob]
    /\ pool0' = non_neighbors
    /\ result' = << >>
    /\ sweep0' = << >>
    /\ nupd' = << >>
    /\ UNCHANGED << nodes, opinions, pc, order, idx, allowance >>

\* add_random_connection returning silently on an empty pool.
return_on_empty_pool ==
    /\ last' = [op |-> "add_random_connection", exc |-> "none"]
    /\ UNCHANGED << adj, non_neighbors, allowance >>

\* raise RuntimeError('No non-neighbors left to connect').
raise_no_non_neighbors ==
    /\ last' = [op |-> "add_random_connection", exc |-> "RuntimeError"]
    /\ UNCHANGED << adj, non_neighbors, allowance >>

\* Network.add_random_connection().
add_random_connection ==
    /\ pc = "idle"
    /\ IF Len(non_neighbors) > 0
       THEN \E k \in 1..Len(non_neighbors) :
              LET new_edge == non_neighbors[k]
              IN  /\ adj' = add_edge(adj, new_edge[1], new_edge[2])
                  /\ non_neighbors' = remove(non_neighbors, new_edge)
                  /\ last' = [op |-> "add_random_connection", exc |-> "none"]
                  /\ allowance' = allowance - 1
       ELSE raise_no_non_neighbors
    /\ result' = << >>
    /\ sweep0' = << >>
    /\ nupd' = << >>
    /\ pool0' = << >>
    /\ tried' = << >>
    /\ UNCHANGED << nodes, opinions, pc, order, idx >>

\* ------------------------------------------------------------- iterate
\* The orders shuffle(nodes) can produce: the permutations of the list.
Shuffles(ns) ==
    { p \in [1..Len(ns) -> Range(ns)] : \A a \in Range(ns) : \E k \in 1..Len(ns) : p[k] = a }

\* Every opinion component of the agents of S has a denominator of at
\* most MaxDen.
Representable(S) ==
    \A a \in S : \A i \in 1..Len(opinions[a]) : opinions[a][i][2] <= MaxDen

\* The loop body of a synchronous sweep: the update is computed from the
\* opinions the sweep began with.
update_agent_synchronous(ops, g, agent) ==
    LET r == opinion_update_vec(sweep0, agent, neighbors(g, agent))
    IN  IF r.exc # "none" THEN r
        ELSE Return([ops EXCEPT ![agent] = r.val])

\* The body of the loop of iterate() for one agent: the opinions of all
\* agents after "agent.opinions = opinion_update_vec(agent, neighbors)",
\* or the exception the update raises.
update_agent(ops, g, agent) ==
    LET r == opinion_update_vec(ops, agent, neighbors(g, agent))
    IN  IF r.exc # "none" THEN r
        ELSE Return([ops EXCEPT ![agent] = r.val])

\* iterate(), up to the loop: nodes = self.graph.nodes(); shuffle(nodes).
\* With no node the loop body never runs and iterate() returns.
iterate_shuffle ==
    /\ pc = "idle"
    /\ \E p \in Shuffles(nodes) : order' = p
    /\ IF Len(nodes) = 0
       THEN /\ pc' = "idle"
            /\ idx' = 0
            /\ last' = [op |-> "iterate", exc |-> "none"]
       ELSE /\ pc' = "iterate"
            /\ idx' = 1
            /\ last' = [op |-> "iterate", exc |-> "running"]
    /\ sweep0' = opinions
    /\ nupd' = [a \in Range(nodes) |-> 0]
    /\ result' = << >>
    /\ pool0' = << >>
    /\ tried' = << >>
    /\ UNCHANGED << nodes, adj, non_neighbors, opinions, allowance >>

\* iterate(), one pass of the loop: the update of the agent order[idx].
\* An exception leaves the loop and iterate(); after the last agent
\* iterate() returns.  The step is followed only while the opinions it
\* reads are Representable.
iterate_update ==
    /\ pc = "iterate"
    /\ LET agent == order[idx]
           r == update_agent(opinions, adj, agent)
       IN  /\ Representable({agent} \cup adj[agent])
           /\ IF r.exc # "none"
              THEN /\ pc' = "idle"
                   /\ last' = [op |-> "iterate", exc |-> r.exc]
                   /\ UNCHANGED << opinions, idx, nupd >>
              ELSE /\ opinions' = r.val
                   /\ nupd' = [nupd EXCEPT ![agent] = @ + 1]
                   /\ idx' = idx + 1
                   /\ IF idx = Len(order)
                      THEN /\ pc' = "idle"
                           /\ last' = [op |-> "iterate", exc |-> "none"]
                      ELSE UNCHANGED << pc, last >>
    /\ UNCHANGED << nodes, adj, non_neighbors, order, result, sweep0, pool0,
                    tried, allowance >>

\* ----------------------------------------------------------- the metric
\* A call polarization(network.graph) between two operations.
polarization_call ==
    /\ pc = "idle"
    /\ LET r == polarization([k \in 1..Len(nodes) |-> opinions[nodes[k]]])
       IN  /\ last' = [op |-> "polarization", exc |-> r.exc]
           /\ result' = r.val
    /\ sweep0' = << >>
    /\ nupd' = << >>
    /\ pool0' = << >>
    /\ tried' = << >>
    /\ UNCHANGED << nodes, adj, non_neighbors, opinions, pc, order, idx,
                    allowance >>

Next ==
    \/ add_random_connections
    \/ add_random_connection
    \/ iterate_shuffle
    \/ iterate_update

Spec == Init /\ [][Next]_vars


\* Opinion vectors of dimension K given to the metric: all -1, all 0,
\* all 1, (1, 0, ..., 0), (1/2, -1/2, 1/2, ...) and (0, 1/K, 2/K, ...).
MetricOpinions(K) ==
    { [i \in 1..K |-> RInt(-1)],
      [i \in 1..K |-> RInt(0)],
      [i \in 1..K |-> RInt(1)],
      [i \in 1..K |-> IF i = 1 THEN RInt(1) ELSE RInt(0)],
      [i \in 1..K |-> IF i % 2 = 1 THEN Rat(1, 2) ELSE Rat(-1, 2)],
      [i \in 1..K |-> Rat(i - 1, K)] }

\* The metric as a function of the opinions: a network of L agents (no
\* edge: the metric does not read the edges) with opinion vectors of
\* dimension K, to which polarization() is applied.
InitMetric ==
    \E L \in 0..MaxAgents, K \in 1..MaxK :
        \E ops \in [1..L -> MetricOpinions(K)] :
            Constructed(L, caves(L, 1), ops)

NextMetric == polarization_call

SpecMetric == InitMetric /\ [][NextMetric]_vars

\* The agents 1..n all holding the opinions (1, 1): no update moves them.
Consensus(n) == [a \in 1..n |-> << RInt(1), RInt(1) >>]

\* Network(initial_graph) for a simple graph of at most MaxAgents agents
\* of one mind: the networks on which the rewiring operations, which do
\* not read the opinions, are followed.
InitRewire ==
    \E n \in 0..MaxAgents :
        \E g \in SimpleGraphs(n) : Constructed(n, g, Consensus(n))

SpecRewire == InitRewire /\ [][Next]_vars

\* --------------------------------------------------------------- agents
\* Values of np.random.uniform(low=-1.0, high=1.0), drawn from [-1, 1).
OpinionDraws == { Rat(k, UniformGrid) : k \in (-UniformGrid)..(UniformGrid - 1) }

\* np.random.uniform(low=-1.0, high=1.0, size=size): the next size values
\* of the generator, whose coming values are draws.
np_random_uniform(size, draws) == [i \in 1..size |-> draws[i]]

\* The opinions of Agent(n_opinions): the constructor asks for size=2
\* whatever n_opinions is.
Agent(n_opinions, draws) == np_random_uniform(2, draws)

\* A call Agent(n_opinions=K) for a dimensionality K of 1..MaxK, with the
\* two values the generator gives to it; result is the opinion vector the
\* new agent holds.
Agent_call ==
    /\ pc = "idle"
    /\ \E n_opinions \in 1..MaxK :
           \E draws \in [1..2 -> OpinionDraws] :
               /\ last' = [op |-> "Agent", exc |-> "none",
                           n_opinions |-> n_opinions]
               /\ result' = Agent(n_opinions, draws)
    /\ sweep0' = << >>
    /\ nupd' = << >>
    /\ pool0' = << >>
    /\ tried' = << >>
    /\ UNCHANGED << nodes, adj, non_neighbors, opinions, pc, order, idx,
                    allowance >>

\* Agents are built before any network holds them.
InitAgent == Constructed(0, << >>, << >>)

NextAgent == Agent_call

SpecAgent == InitAgent /\ [][NextAgent]_vars

\* ----------------------------------------------------------- the weight
\* A call weight(a1, a2, nonnegative) on two agents of the network.
weight_call ==
    /\ pc = "idle"
    /\ \E a1 \in Range(nodes), a2 \in Range(nodes), nonnegative \in BOOLEAN :
           LET r == weight(opinions[a1], opinions[a2], nonnegative)
           IN  /\ last' = [op |-> "weight", exc |-> r.exc, a1 |-> a1,
                           a2 |-> a2, nonnegative |-> nonnegative]
               /\ result' = r.val
    /\ sweep0' = << >>
    /\ nupd' = << >>
    /\ pool0' = << >>
    /\ tried' = << >>
    /\ UNCHANGED << nodes, adj, non_neighbors, opinions, pc, order, idx,
                    allowance >>

\* The weight as a function of the opinions: two agents (no edge: the
\* weight does not read the edges) whose opinion vectors have dimensions
\* K1 and K2 of 1..MaxK, to which weight() is applied.
InitWeight ==
    \E K1 \in 1..MaxK, K2 \in 1..MaxK :
        \E o1 \in MetricOpinions(K1), o2 \in MetricOpinions(K2) :
            Constructed(2, caves(2, 1), << o1, o2 >>)

NextWeight == weight_call

SpecWeight == InitWeight /\ [][NextWeight]_vars

\* ============================================================ properties
\* An unordered pair of agents.
Pair(p) == { p[1], p[2] }

AllPairs == { P \in SUBSET Range(nodes) : Cardinality(P) = 2 }

EdgeSet == UNION { { { a, b } : b \in adj[a] } : a \in DOMAIN adj }

PoolSet == { Pair(non_neighbors[k]) : k \in 1..Len(non_neighbors) }

Choose2(n) == (n * (n - 1)) \div 2

\* C1: in every reachable state the non-neighbor pool and the edge set
\* partition the unordered pairs of distinct agents: no self-pair in
\* either, no pair twice in the pool, every pair in exactly one of the
\* two.  Right after construction the pool has C(n,2) - |edges| pairs,
\* which is 150 for 4 caves of 5 agents.
C1_PoolEdgePartition ==
    /\ \A k \in 1..Len(non_neighbors) :
           non_neighbors[k][1] # non_neighbors[k][2]
    /\ \A a \in DOMAIN adj : a \notin adj[a]
    /\ \A i, j \in 1..Len(non_neighbors) :
           i # j => Pair(non_neighbors[i]) # Pair(non_neighbors[j])
    /\ PoolSet \cup EdgeSet = AllPairs
    /\ PoolSet \cap EdgeSet = {}
    /\ last = NoCall =>
           /\ Len(non_neighbors) = Choose2(Len(nodes)) - Cardinality(EdgeSet)
           /\ Len(init_non_neighbors([a \in 1..20 |-> a], caves(4, 5))) = 150

\* A network that had edges and a non-empty pool, rewired, with pairs
\* still in the pool.
C1_Witness ==
    /\ last.op = "add_random_connections"
    /\ Len(non_neighbors) < Len(pool0)
    /\ Cardinality(EdgeSet) > Len(pool0) - Len(non_neighbors)
    /\ non_neighbors # << >>

\* C2 (as claimed): one call of add_random_connections gives every pair
\* of the pool at the start of the call exactly one trial, in order, and
\* with conn_prob = 1 leaves the pool empty.
C2_OneTrialPerCandidate ==
    last.op = "add_random_connections" =>
        /\ tried = pool0
        /\ last.conn_prob = RInt(1) => non_neighbors = << >>

\* C3: with a non-empty pool, add_random_connection picks a pair of the
\* pool, adds exactly that pair as an edge and removes it from the pool:
\* the pool shrinks by one, the edge count grows by one, and the graph
\* stays simple.
C3_AddOneConnection ==
    [][ (last'.op = "add_random_connection" /\ Len(non_neighbors) > 0) =>
          \E k \in 1..Len(non_neighbors) :
             LET e == non_neighbors[k]
             IN  /\ last'.exc = "none"
                 /\ e[1] # e[2]
                 /\ Pair(e) \notin EdgeSet
                 /\ EdgeSet' = EdgeSet \cup { Pair(e) }
                 /\ Cardinality(edges(adj')) = Cardinality(edges(adj)) + 1
                 /\ Len(non_neighbors') = Len(non_neighbors) - 1
                 /\ Pair(e) \notin PoolSet'
                 /\ PoolSet' = PoolSet \ { Pair(e) }
                 /\ \A a \in DOMAIN adj' :
                        a \notin adj'[a] /\ \A b \in adj'[a] : a \in adj'[b]
      ]_vars

\* A successful add_random_connection that left pairs in the pool.
C3_Witness ==
    /\ last = [op |-> "add_random_connection", exc |-> "none"]
    /\ Len(non_neighbors) >= 1
    /\ Cardinality(EdgeSet) >= 2

\* C4: with an empty pool add_random_connection raises (RuntimeError) and
\* leaves the edges, the pool and the opinions unchanged; it raises only
\* then, and the successful calls are never more than the pairs the pool
\* had after construction (allowance never drops below 0).
C4_ExhaustedPoolRaises ==
    /\ [][ (last'.op = "add_random_connection" /\ Len(non_neighbors) = 0) =>
             /\ last'.exc = "RuntimeError"
             /\ UNCHANGED << adj, non_neighbors, opinions >>
         ]_vars
    /\ [](allowance >= 0)
    /\ []((last.op = "add_random_connection" /\ last.exc # "none") =>
             /\ last.exc = "RuntimeError"
             /\ non_neighbors = << >>
             /\ EdgeSet = AllPairs)

\* The error is raised on a graph of three agents or more whose pool
\* was used up by add_random_connection calls alone.
C4_Witness ==
    /\ last = [op |-> "add_random_connection", exc |-> "RuntimeError"]
    /\ Len(nodes) >= 3
    /\ allowance = 0


\* C5: every opinion component of every agent is within [-1, 1] in every
\* reachable state, that is after every individual agent update of every
\* sweep, whatever rewiring happened between the sweeps.
C5_OpinionsBounded ==
    \A a \in DOMAIN opinions : \A i \in 1..Len(opinions[a]) :
        RLeq(RInt(-1), opinions[a][i]) /\ RLeq(opinions[a][i], RInt(1))

\* Inside a sweep that follows an add_random_connections call that added
\* an edge, an agent that an earlier sweep had already moved has been moved
\* again.
C5_Witness ==
    /\ pc = "iterate"
    /\ allowance > Len(non_neighbors)
    /\ \E a \in DOMAIN opinions :
          /\ nupd[a] = 1
          /\ opinions[a] # sweep0[a]
          /\ sweep0[a] \notin InitialOpinions

\* The agents iterate() has updated in the current sweep.
Processed == { order[k] : k \in 1..(idx - 1) }

\* C6: a sweep updates the agents in the order of a permutation of the
\* nodes, each exactly once, and commits each update before the next: the
\* update of an agent is computed from the already-updated opinions of
\* the agents processed earlier in the sweep and from the sweep-start
\* opinions of the others, and changes no other agent.
C6_AsynchronousSweep ==
    /\ [][ (pc = "iterate" /\ idx' = idx + 1) =>
             LET agent == order[idx]
                 seen == [b \in DOMAIN opinions |->
                             IF b \in Processed THEN opinions[b]
                             ELSE sweep0[b]]
             IN  /\ opinions'[agent] =
                        opinion_update_vec(seen, agent,
                                           neighbors(adj, agent)).val
                 /\ \A b \in DOMAIN opinions \ {agent} :
                        opinions'[b] = opinions[b]
         ]_vars
    /\ [](last.op = "iterate" =>
             /\ order \in Shuffles(nodes)
             /\ \A a \in Range(nodes) :
                    nupd[a] = IF a \in Processed THEN 1 ELSE 0
             /\ (last.exc = "none" => Processed = Range(nodes)))

\* An agent was updated after a neighbor the same sweep had changed, and
\* its new opinions differ from those the sweep-start opinions give.
C6_Witness ==
    /\ last.op = "iterate"
    /\ \E k \in 2..(idx - 1) :
          LET a == order[k]
          IN  /\ \E j \in 1..(k - 1) :
                     order[j] \in adj[a] /\ opinions[order[j]] # sweep0[order[j]]
              /\ \A j \in (k + 1)..(idx - 1) : order[j] \notin adj[a]
              /\ opinions[a] #
                     opinion_update_vec(sweep0, a, neighbors(adj, a)).val

\* C7: no step removes an edge, and the steps of iterate change neither
\* the edges nor the pool.
C7_EdgesOnlyGrow ==
    [][ /\ EdgeSet \subseteq EdgeSet'
        /\ \A a \in DOMAIN adj : adj[a] \subseteq adj'[a]
        /\ last'.op = "iterate" => UNCHANGED << adj, non_neighbors >>
      ]_vars

\* A completed sweep on a graph that add_random_connections has grown by
\* two edges or more.
C7_Witness ==
    /\ last = [op |-> "iterate", exc |-> "none"]
    /\ Len(nodes) >= 2
    /\ allowance >= Len(non_neighbors) + 2

\* C8: the update of an agent without neighbors raises (ZeroDivisionError,
\* from 1.0 / (2.0 * 0)) instead of producing opinions: iterate() ends
\* with the exception and the opinions are as they were before the update.
C8_IsolatedAgentRaises ==
    [][ (pc = "iterate" /\ adj[order[idx]] = {}) =>
          /\ last' = [op |-> "iterate", exc |-> "ZeroDivisionError"]
          /\ pc' = "idle"
          /\ opinions' = opinions
      ]_vars

\* iterate() raised on caves of one agent each, never rewired.
C8_Witness ==
    /\ last = [op |-> "iterate", exc |-> "ZeroDivisionError"]
    /\ Len(nodes) >= 2
    /\ adj = caves(Len(nodes), 1)

\* The opinion vectors of network.nodes().
NodeOpinions == [k \in 1..Len(nodes) |-> opinions[nodes[k]]]

\* C9: polarization of a network of fewer than 2 agents raises
\* (ZeroDivisionError, from 1 / (L * (L - 1))) and returns no number.
C9_PolarizationRaisesBelowTwo ==
    (last.op = "polarization" /\ Len(nodes) < 2) =>
        /\ last.exc = "ZeroDivisionError"
        /\ result = << >>

\* polarization() was called on a network of one agent.
C9_Witness ==
    /\ last.op = "polarization"
    /\ Len(nodes) = 1
    /\ last.exc # "none"

\* The ordered pairs (i, j) of 1..L with i # j.
OffDiagonal(L) ==
    SelectSeq([k \in 1..(L * L) |-> << ((k - 1) \div L) + 1, ((k - 1) % L) + 1 >>],
              LAMBDA p : p[1] # p[2])

\* The variance of the distances of the ordered pairs of distinct agents
\* around their mean.
DistanceVariance(ops) ==
    LET L == Len(ops)
        P == OffDiagonal(L)
        d(p) == distance(ops[p[1]], ops[p[2]])
        mean == RMul(RSum([k \in 1..Len(P) |-> d(P[k])]), Rat(1, Len(P)))
        dev(p) == RSub(d(p), mean)
    IN  RMul(RSum([k \in 1..Len(P) |-> RMul(dev(P[k]), dev(P[k]))]),
             Rat(1, Len(P)))

\* C10: for L >= 2 agents polarization returns a nonnegative number, the
\* variance of the off-diagonal distances around their mean, which is 0
\* when all agents hold the same opinion vector.
C10_PolarizationIsVariance ==
    (last.op = "polarization" /\ Len(nodes) >= 2) =>
        /\ last.exc = "none"
        /\ ~IsNaN(result)
        /\ RLeq(RInt(0), result)
        /\ result = DistanceVariance(NodeOpinions)
        /\ (\A a, b \in DOMAIN opinions : opinions[a] = opinions[b]) =>
               result = RInt(0)

\* A positive polarization of three agents with two-component opinions,
\* two of them of one mind.
C10_Witness ==
    /\ last.op = "polarization"
    /\ Len(nodes) = 3
    /\ Len(opinions[1]) = 2
    /\ opinions[1] = opinions[2]
    /\ RLess(RInt(0), result)

\* C11: an Agent built for opinion dimensionality K holds an opinion vector
\* of length exactly K, every component of which lies in [-1, 1].
C11_AgentHoldsKOpinions ==
    last.op = "Agent" =>
        /\ Len(result) = last.n_opinions
        /\ \A i \in 1..Len(result) :
               RLeq(RInt(-1), result[i]) /\ RLeq(result[i], RInt(1))

\* The sum of the absolute component differences of two opinion vectors of
\* one length.
AbsDifferenceSum(o1, o2) ==
    RSum([i \in 1..Len(o1) |-> RAbs(RSub(o1[i], o2[i]))])

\* C12: weight(a1, a2, nonnegative) raises when the two opinion vectors
\* have different lengths; otherwise it returns 1 minus the sum of the
\* absolute component differences divided by f * K, with f = 2 when
\* nonnegative is asked for and f = 1 otherwise.  It is the same for
\* (a2, a1), it is 1 for two identical vectors, and it is -1 for (1, 1)
\* and (-1, -1) with nonnegative = False.
C12_WeightFormula ==
    last.op = "weight" =>
        LET o1 == opinions[last.a1]
            o2 == opinions[last.a2]
            f == IF last.nonnegative THEN 2 ELSE 1
        IN  /\ Len(o1) # Len(o2) =>
                   /\ last.exc = "RuntimeError"
                   /\ result = << >>
            /\ Len(o1) = Len(o2) =>
                   /\ last.exc = "none"
                   /\ result = RSub(RInt(1),
                                    RMul(AbsDifferenceSum(o1, o2),
                                         Rat(1, f * Len(o1))))
                   /\ result = weight(o2, o1, last.nonnegative).val
                   /\ o1 = o2 => result = RInt(1)
                   /\ ( /\ o1 = << RInt(1), RInt(1) >>
                        /\ o2 = << RInt(-1), RInt(-1) >>
                        /\ ~last.nonnegative ) => result = RInt(-1)

\* weight() was applied to (1, 1) and (-1, -1) with nonnegative = False
\* and returned -1.
C12_Witness ==
    /\ last.op = "weight"
    /\ opinions[last.a1] = << RInt(1), RInt(1) >>
    /\ opinions[last.a2] = << RInt(-1), RInt(-1) >>
    /\ ~last.nonnegative
    /\ last.exc = "none"
    /\ result = RInt(-1)

=============================================================================
